---- MODULE Spec2Model ----
(***************************************************************************)
(* Token lifecycle and dispatch engine of the banking website:            *)
(* modules/token_manager.py driven by the request handlers of             *)
(* api/customer_routes.py and api/staff_routes.py, over the tokens table  *)
(* of database/models.py.                                                 *)
(*                                                                         *)
(* Every request handler runs in its own request context with its own     *)
(* SQLAlchemy session.  A handler is split at its database round trips:   *)
(* the SELECT that loads the row(s) it works on, and the COMMIT that       *)
(* flushes its changes.  Between the two, other requests may run.          *)
(***************************************************************************)
EXTENDS Integers, Sequences, FiniteSets, TLC

VARIABLES tokens, req, now, tzoff, left, conns

vars == <<tokens, req, now, tzoff, left, conns>>

(***************************************************************************)
(* Bounds of the model.                                                    *)
(***************************************************************************)
MaxTokens == 2
NumProcs == 2
MaxTime == 1
TicksPerDay == 2
MaxTz == 0
MaxOps == 4
DeskOps == 3
BusyDay == 999
FanoutOps == 3

Procs == 1..NumProcs

(***************************************************************************)
(* Column values.                                                          *)
(***************************************************************************)
NULL == -1

NoStr == "None"

\* users table: two customers (the second has a VIP account number), two
\* staff members and an admin
Users ==
  [u \in 1..5 |->
     CASE u = 1 -> [role |-> "customer", account_number |-> <<"A", "C", "C", "1">>]
       [] u = 2 -> [role |-> "customer", account_number |-> <<"V", "I", "P", "2">>]
       [] u = 5 -> [role |-> "admin", account_number |-> <<>>]
       [] OTHER -> [role |-> "staff", account_number |-> <<>>]]

Customers == {u \in DOMAIN Users : Users[u].role = "customer"}

Staff == {u \in DOMAIN Users : Users[u].role = "staff"}

ValidTypes == {"cash_deposit", "general_query", "loan_application", "meet_gm"}

TOKEN_PREFIX == <<"T", "K", "N">>

(***************************************************************************)
(* Text: decimal digits, {sequence:03d}, strftime('%Y%m%d'), and           *)
(* int(token_number[-3:]).                                                 *)
(***************************************************************************)
DigitChars == <<"0", "1", "2", "3", "4", "5", "6", "7", "8", "9">>

RECURSIVE DecStr(_)
DecStr(n) ==
  IF n < 10 THEN <<DigitChars[n + 1]>>
  ELSE DecStr(n \div 10) \o <<DigitChars[(n % 10) + 1]>>

\* f"{sequence:03d}": zero-padded to a MINIMUM width of 3
Format03d(n) ==
  LET s == DecStr(n)
  IN  IF Len(s) >= 3 THEN s
      ELSE IF Len(s) = 2 THEN <<"0">> \o s
      ELSE <<"0", "0">> \o s

\* today.strftime('%Y%m%d') for the day numbered d, day 0 being 2025-10-11
DateStr(d) == DecStr(20251011 + d)

generate_token_number(prefix, date_str, sequence) ==
  prefix \o date_str \o Format03d(sequence)

DigitVal(c) == CHOOSE d \in 0..9 : DigitChars[d + 1] = c

RECURSIVE ParseInt(_)
ParseInt(s) ==
  IF Len(s) = 0 THEN 0
  ELSE 10 * ParseInt(SubSeq(s, 1, Len(s) - 1)) + DigitVal(s[Len(s)])

\* int(token_number[-3:])
LastThree(number) == ParseInt(SubSeq(number, Len(number) - 2, Len(number)))

\* 'VIP' in account_number
ContainsVIP(acc) ==
  \E i \in 1..(Len(acc) - 2) : SubSeq(acc, i, i + 2) = <<"V", "I", "P">>

determine_priority(customer) ==
  IF customer.role = "admin" THEN "vip"
  ELSE IF Len(customer.account_number) > 0 /\ ContainsVIP(customer.account_number)
       THEN "vip"
  ELSE "normal"

calculate_wait_time(waiting_count) == waiting_count * 5

(***************************************************************************)
(* Clock.  generated_at, called_at and completed_at are datetime.utcnow(); *)
(* date.today() is the local date.                                         *)
(***************************************************************************)
UtcDate(t) == t \div TicksPerDay

LocalToday == (now + tzoff) \div TicksPerDay

(***************************************************************************)
(* The tokens table.  token_id is the position of the row.                 *)
(***************************************************************************)
TokenIds == 1..Len(tokens)

NewToken(number, customer_id, service_type, priority, notes) ==
  [token_number |-> number,
   customer_id |-> customer_id,
   service_type |-> service_type,
   priority |-> priority,
   status |-> "waiting",
   counter_number |-> NoStr,
   estimated_wait_time |-> NULL,
   generated_at |-> now,
   called_at |-> NULL,
   completed_at |-> NULL,
   notes |-> notes,
   served_by |-> NULL]

\* the value of a request's snap before it has loaded a row
NoRow ==
  [token_number |-> <<>>, customer_id |-> 0, service_type |-> NoStr,
   priority |-> NoStr, status |-> NoStr, counter_number |-> NoStr,
   estimated_wait_time |-> NULL, generated_at |-> NULL, called_at |-> NULL,
   completed_at |-> NULL, notes |-> NoStr, served_by |-> NULL]

\* a token_number column without the UNIQUE constraint
UniqueViolationOff(number) == FALSE

\* the UNIQUE constraint on token_number: the INSERT raises IntegrityError
UniqueViolation(number) == \E i \in TokenIds : tokens[i].token_number = number

\* Token.query.filter(date(generated_at) == today).order_by(token_id.desc()).first()
\* (scanned from the highest token_id down)
RECURSIVE LastTokenFrom(_)
LastTokenFrom(i) ==
  IF i = 0 THEN 0
  ELSE IF UtcDate(tokens[i].generated_at) = LocalToday THEN i
  ELSE LastTokenFrom(i - 1)

LastTokenOfToday == LastTokenFrom(Len(tokens))

NextSequence ==
  IF LastTokenOfToday # 0
  THEN LastThree(tokens[LastTokenOfToday].token_number) + 1
  ELSE 1

WaitingIds == {i \in TokenIds : tokens[i].status = "waiting"}

\* ORDER BY priority DESC compares the strings of the column
Collation(p) ==
  CASE p = "vip" -> 22
    [] p = "senior_citizen" -> 19
    [] p = "normal" -> 14
    [] p = "elevated" -> 5
    [] OTHER -> 0

\* ORDER BY priority DESC, generated_at ASC: i sorts strictly before j
SortsBefore(i, j) ==
  \/ Collation(tokens[i].priority) > Collation(tokens[j].priority)
  \/ /\ tokens[i].priority = tokens[j].priority
     /\ tokens[i].generated_at < tokens[j].generated_at

\* the rows .first() may return: no waiting row sorts strictly before them
NextTokenCandidates ==
  {i \in WaitingIds : \A j \in WaitingIds : ~SortsBefore(j, i)}

\* session.commit() of a loaded row: the UPDATE carries the attributes whose
\* value differs from the value loaded (snap); the other columns keep
\* whatever the table holds now
Flush(row, snap, new) ==
  [f \in DOMAIN row |-> IF new[f] # snap[f] THEN new[f] ELSE row[f]]

(***************************************************************************)
(* Requests.                                                               *)
(***************************************************************************)
Room(kind, id) == [kind |-> kind, id |-> id]

Idle ==
  [op |-> "idle", pc |-> "idle", user |-> 0, tid |-> 0,
   service |-> NoStr, status |-> NoStr, counter |-> NoStr, notes |-> NoStr,
   snap |-> NoRow, number |-> <<>>, attempts |-> 0,
   code |-> 0, message |-> NoStr, emitted |-> <<>>]

\* the response; the session and its loaded rows are discarded
Done(r, code, message) ==
  [r EXCEPT !.pc = "done", !.code = code, !.message = message,
            !.snap = NoRow, !.number = <<>>, !.service = NoStr,
            !.status = NoStr, !.counter = NoStr, !.notes = NoStr]

\* a Socket.IO connection of a user: whether it is up, and its rooms
NoConn == [up |-> FALSE, rooms |-> {}]

\* the state after create_app(): an empty tokens table, idle workers, no
\* Socket.IO connection.  budget is the number of requests the model follows
\* (NULL: any number), zones the offsets of the local clock from UTC
InitWith(budget, zones) ==
  /\ tokens = <<>>
  /\ req = [p \in Procs |-> Idle]
  /\ now = 0
  /\ tzoff \in zones
  /\ left = budget
  /\ conns = [u \in DOMAIN Users |-> NoConn]

Init == InitWith(MaxOps, {0})

\* a request is admitted: the model follows a bounded number of requests
Admit ==
  IF left = NULL THEN UNCHANGED left
  ELSE /\ left > 0
       /\ left' = left - 1

\* the clock advances
Tick ==
  /\ now < MaxTime
  /\ now' = now + 1
  /\ UNCHANGED <<tokens, req, tzoff, left, conns>>

\* the response has been sent; the worker takes the next request
Finish(p) ==
  /\ req[p].pc = "done"
  /\ req' = [req EXCEPT ![p] = Idle]
  /\ UNCHANGED <<tokens, now, tzoff, left, conns>>

(***************************************************************************)
(* Issue: POST /token/generate -> generate_token                           *)
(***************************************************************************)
\* service types a client may send: a listed one, an unlisted one, none
ServiceInputs == {"general_query", "bogus", NoStr}

\* a validator that accepts every service type
ValidateNothing(service_type) == FALSE

\* validate_token_data: the list of errors is non-empty
validate_token_data(service_type) == service_type \notin ValidTypes

IssuesInFlight == Cardinality({q \in Procs : req[q].op = "Issue" /\ req[q].pc = "insert"})

\* validation, then the SELECT of today's last token and the number built
\* from it
IssueStart(p, customers, services, cap) ==
  /\ req[p].pc = "idle"
  /\ Admit
  /\ Len(tokens) + IssuesInFlight < cap
  /\ \E u \in customers, st \in services :
       LET r == [Idle EXCEPT !.op = "Issue", !.user = u, !.service = st]
       IN  IF validate_token_data(st)
           THEN req' = [req EXCEPT ![p] = Done(r, 400, "Validation errors")]
           ELSE req' = [req EXCEPT ![p] =
                  [r EXCEPT !.pc = "insert",
                            !.attempts = 1,
                            !.notes = "",
                            !.number = generate_token_number(
                                 TOKEN_PREFIX, DateStr(LocalToday), NextSequence)]]
  /\ UNCHANGED <<tokens, now, tzoff, conns>>

\* db.session.add(token); db.session.commit().  An IntegrityError leaves
\* generate_token and is turned into a 500 by handle_errors.
IssueInsert(p) ==
  /\ req[p].pc = "insert"
  /\ IF UniqueViolation(req[p].number)
     THEN /\ req' = [req EXCEPT ![p] = Done(req[p], 500, "Internal server error")]
          /\ UNCHANGED tokens
     ELSE /\ tokens' = Append(tokens,
                 NewToken(req[p].number, req[p].user, req[p].service,
                          determine_priority(Users[req[p].user]), req[p].notes))
          /\ req' = [req EXCEPT ![p] =
                 [req[p] EXCEPT !.pc = "estimate", !.tid = Len(tokens) + 1]]
  /\ UNCHANGED <<now, tzoff, left, conns>>

\* the count of waiting tokens, and the second commit
IssueEstimate(p) ==
  /\ req[p].pc = "estimate"
  /\ tokens' = [tokens EXCEPT ![req[p].tid].estimated_wait_time =
                   calculate_wait_time(Cardinality(WaitingIds))]
  /\ req' = [req EXCEPT ![p].pc = "emit"]
  /\ UNCHANGED <<now, tzoff, left, conns>>

Event(event, room, tid) == [event |-> event, room |-> room, tid |-> tid]

\* the emit calls of a handler, in order, and its response.  The calls are
\* not guarded: when the fan-out is unreliable any of them may raise; the
\* events before it are out, handle_errors answers 500 and the commit stays
Emit(p, events, unreliable) ==
  /\ req[p].pc = "emit"
  /\ \/ req' = [req EXCEPT ![p] =
           Done([req[p] EXCEPT !.emitted = events], 200, "success")]
     \/ /\ unreliable
        /\ \E k \in 0..(Len(events) - 1) :
             req' = [req EXCEPT ![p] =
               Done([req[p] EXCEPT !.emitted = SubSeq(events, 1, k)],
                    500, "Internal server error")]
  /\ UNCHANGED <<tokens, now, tzoff, left, conns>>

IssueEmit(p, unreliable) ==
  /\ req[p].op = "Issue"
  /\ Emit(p, <<Event("token_generated", Room("staff", 0), req[p].tid),
               Event("token_generated", Room("admin", 0), req[p].tid)>>,
          unreliable)

(***************************************************************************)
(* update_token_status, as the commit step of the handlers that call it.  *)
(* get_token_by_id inside it is served from the session when the handler   *)
(* has loaded the row before (call_next_token, complete_token).            *)
(***************************************************************************)
Truthy(s) == s # NoStr /\ s # ""

\* update_token_status writing the acting user into the owner column
StatusAssignmentsOwner(snap, status, counter_number, notes, served_by) ==
  [snap EXCEPT !.status = status, !.customer_id = served_by]

\* the attribute assignments of update_token_status on the loaded row.
\* served_by is the staff member of the request (the routes pass
\* current_user), 0 when the caller gives none
StatusAssignments(snap, status, counter_number, notes, served_by) ==
  LET a == [snap EXCEPT !.status = status]
      b == IF status = "in_progress"
           THEN [a EXCEPT !.called_at = now,
                          !.counter_number =
                             IF Truthy(counter_number) THEN counter_number ELSE @,
                          !.served_by = IF served_by # 0 THEN served_by ELSE @]
           ELSE IF status = "completed"
           THEN [a EXCEPT !.completed_at = now,
                          !.served_by = IF served_by # 0 THEN served_by ELSE @]
           ELSE a
  IN  IF Truthy(notes) THEN [b EXCEPT !.notes = notes] ELSE b

\* db.session.commit() in update_token_status
CommitStatus(p, status) ==
  LET r == req[p]
      new == StatusAssignments(r.snap, status, r.counter, r.notes, r.user)
  IN  /\ tokens' = [tokens EXCEPT ![r.tid] = Flush(tokens[r.tid], r.snap, new)]
      /\ req' = [req EXCEPT ![p].pc = "emit"]
      /\ UNCHANGED <<now, tzoff, left, conns>>

OwnerRoom(tid) == Room("customer", tokens[tid].customer_id)

CounterInputs == {"Counter 1"}

(***************************************************************************)
(* CallNext: POST /token/next -> call_next_token                           *)
(***************************************************************************)
\* a handler that publishes before it looks at the result
CallNextStartPublishesFirst(p, staff, counters) ==
  /\ req[p].pc = "idle"
  /\ Admit
  /\ \E s \in staff, c \in counters :
       LET r == [Idle EXCEPT !.op = "CallNext", !.user = s, !.counter = c]
       IN  IF NextTokenCandidates = {}
           THEN req' = [req EXCEPT ![p] =
                   Done([r EXCEPT !.emitted =
                           <<[event |-> "token_updated",
                              room |-> Room("staff", 0), tid |-> 0]>>],
                        400, "No tokens in queue")]
           ELSE \E t \in NextTokenCandidates :
                  req' = [req EXCEPT ![p] =
                     [r EXCEPT !.pc = "commit", !.tid = t, !.snap = tokens[t]]]
  /\ UNCHANGED <<tokens, now, tzoff, conns>>

\* get_next_token_to_call(); rows that tie on (priority, generated_at) come
\* in an order SQL leaves open
CallNextStart(p, staff, counters) ==
  /\ req[p].pc = "idle"
  /\ Admit
  /\ \E s \in staff, c \in counters :
       LET r == [Idle EXCEPT !.op = "CallNext", !.user = s, !.counter = c]
       IN  IF NextTokenCandidates = {}
           THEN req' = [req EXCEPT ![p] = Done(r, 400, "No tokens in queue")]
           ELSE \E t \in NextTokenCandidates :
                  req' = [req EXCEPT ![p] =
                     [r EXCEPT !.pc = "commit", !.tid = t, !.snap = tokens[t]]]
  /\ UNCHANGED <<tokens, now, tzoff, conns>>

CallNextCommit(p) ==
  /\ req[p].op = "CallNext"
  /\ req[p].pc = "commit"
  /\ CommitStatus(p, "in_progress")

CallNextEmit(p, unreliable) ==
  /\ req[p].op = "CallNext"
  /\ Emit(p, <<Event("token_called", OwnerRoom(req[p].tid), req[p].tid),
               Event("token_updated", Room("staff", 0), req[p].tid),
               Event("token_updated", Room("admin", 0), req[p].tid)>>,
          unreliable)

(***************************************************************************)
(* CallSpecific: PUT /token/<id>/call -> call_token                        *)
(***************************************************************************)
\* token ids a client may name: the rows of the table and one id past them
TokenIdInputs == 1..(Len(tokens) + 1)

CallSpecificStart(p, staff, counters) ==
  /\ req[p].pc = "idle"
  /\ Admit
  /\ \E s \in staff, c \in counters, t \in TokenIdInputs :
       LET r == [Idle EXCEPT !.op = "CallSpecific", !.user = s, !.counter = c,
                             !.tid = t]
       IN  IF t \notin TokenIds
           THEN req' = [req EXCEPT ![p] = Done(r, 404, "Token not found")]
           ELSE req' = [req EXCEPT ![p] =
                   [r EXCEPT !.pc = "commit", !.snap = tokens[t]]]
  /\ UNCHANGED <<tokens, now, tzoff, conns>>

CallSpecificCommit(p) ==
  /\ req[p].op = "CallSpecific"
  /\ req[p].pc = "commit"
  /\ CommitStatus(p, "in_progress")

CallSpecificEmit(p, unreliable) ==
  /\ req[p].op = "CallSpecific"
  /\ Emit(p, <<Event("token_called", OwnerRoom(req[p].tid), req[p].tid),
               Event("token_updated", Room("staff", 0), req[p].tid),
               Event("token_updated", Room("admin", 0), req[p].tid)>>,
          unreliable)

(***************************************************************************)
(* Complete: PUT /token/<id>/complete -> complete_token                    *)
(***************************************************************************)
CompleteStart(p, staff) ==
  /\ req[p].pc = "idle"
  /\ Admit
  /\ \E s \in staff, t \in TokenIdInputs :
       LET r == [Idle EXCEPT !.op = "Complete", !.user = s, !.tid = t]
       IN  IF t \notin TokenIds
           THEN req' = [req EXCEPT ![p] = Done(r, 400, "Token not found")]
           ELSE IF tokens[t].status # "in_progress"
           THEN req' = [req EXCEPT ![p] = Done(r, 400, "Token is not in progress")]
           ELSE req' = [req EXCEPT ![p] =
                   [r EXCEPT !.pc = "commit", !.snap = tokens[t]]]
  /\ UNCHANGED <<tokens, now, tzoff, conns>>

CompleteCommit(p) ==
  /\ req[p].op = "Complete"
  /\ req[p].pc = "commit"
  /\ CommitStatus(p, "completed")

CompleteEmit(p, unreliable) ==
  /\ req[p].op = "Complete"
  /\ Emit(p, <<Event("token_updated", Room("staff", 0), req[p].tid),
               Event("token_updated", Room("admin", 0), req[p].tid),
               Event("token_updated", OwnerRoom(req[p].tid), req[p].tid)>>,
          unreliable)

(***************************************************************************)
(* Cancel: DELETE /token/<id> -> cancel_token                              *)
(***************************************************************************)
\* cancel_token with the status test ahead of the owner test
CancelStartStatusFirst(p, customers) ==
  /\ req[p].pc = "idle"
  /\ Admit
  /\ \E u \in customers, t \in TokenIdInputs :
       LET r == [Idle EXCEPT !.op = "Cancel", !.user = u, !.tid = t]
       IN  IF t \notin TokenIds
           THEN req' = [req EXCEPT ![p] = Done(r, 400, "Token not found")]
           ELSE IF tokens[t].status # "waiting"
           THEN req' = [req EXCEPT ![p] =
                   Done(r, 400, "Only waiting tokens can be cancelled")]
           ELSE IF tokens[t].customer_id # u
           THEN req' = [req EXCEPT ![p] =
                   Done(r, 400, "Unauthorized to cancel this token")]
           ELSE req' = [req EXCEPT ![p] =
                   [r EXCEPT !.pc = "commit", !.snap = tokens[t]]]
  /\ UNCHANGED <<tokens, now, tzoff, conns>>

CancelStart(p, customers) ==
  /\ req[p].pc = "idle"
  /\ Admit
  /\ \E u \in customers, t \in TokenIdInputs :
       LET r == [Idle EXCEPT !.op = "Cancel", !.user = u, !.tid = t]
       IN  IF t \notin TokenIds
           THEN req' = [req EXCEPT ![p] = Done(r, 400, "Token not found")]
           ELSE IF tokens[t].customer_id # u
           THEN req' = [req EXCEPT ![p] =
                   Done(r, 400, "Unauthorized to cancel this token")]
           ELSE IF tokens[t].status # "waiting"
           THEN req' = [req EXCEPT ![p] =
                   Done(r, 400, "Only waiting tokens can be cancelled")]
           ELSE req' = [req EXCEPT ![p] =
                   [r EXCEPT !.pc = "commit", !.snap = tokens[t]]]
  /\ UNCHANGED <<tokens, now, tzoff, conns>>

\* token.status = 'cancelled'; db.session.commit()
CancelCommit(p) ==
  /\ req[p].op = "Cancel"
  /\ req[p].pc = "commit"
  /\ tokens' = [tokens EXCEPT ![req[p].tid] =
        Flush(tokens[req[p].tid], req[p].snap,
              [req[p].snap EXCEPT !.status = "cancelled"])]
  /\ req' = [req EXCEPT ![p].pc = "emit"]
  /\ UNCHANGED <<now, tzoff, left, conns>>

CancelEmit(p, unreliable) ==
  /\ req[p].op = "Cancel"
  /\ Emit(p, <<Event("token_updated", Room("staff", 0), req[p].tid),
               Event("token_updated", Room("admin", 0), req[p].tid)>>,
          unreliable)

(***************************************************************************)
(* UpdateStatus: PUT /token/<id>/status -> update_token_status             *)
(***************************************************************************)
\* the status the client sends: any string, or none
StatusInputs == {"waiting", "in_progress", "completed", "cancelled", "on_hold", NoStr}

UpdateStatusStart(p, staff, statuses, counters, notes) ==
  /\ req[p].pc = "idle"
  /\ Admit
  /\ \E s \in staff, t \in TokenIdInputs, st \in statuses,
        c \in counters, n \in notes :
       LET r == [Idle EXCEPT !.op = "UpdateStatus", !.user = s, !.tid = t,
                             !.status = st, !.counter = c, !.notes = n]
       IN  IF ~Truthy(st)
           THEN req' = [req EXCEPT ![p] = Done(r, 400, "Status is required")]
           ELSE IF t \notin TokenIds
           THEN req' = [req EXCEPT ![p] = Done(r, 404, "Token not found")]
           ELSE req' = [req EXCEPT ![p] =
                   [r EXCEPT !.pc = "commit", !.snap = tokens[t]]]
  /\ UNCHANGED <<tokens, now, tzoff, conns>>

UpdateStatusCommit(p) ==
  /\ req[p].op = "UpdateStatus"
  /\ req[p].pc = "commit"
  /\ CommitStatus(p, req[p].status)

UpdateStatusEmit(p, unreliable) ==
  /\ req[p].op = "UpdateStatus"
  /\ Emit(p, <<Event("token_updated", Room("staff", 0), req[p].tid),
               Event("token_updated", Room("admin", 0), req[p].tid),
               Event("token_updated", OwnerRoom(req[p].tid), req[p].tid)>>,
          unreliable)

(***************************************************************************)
(* The system: every operation, on a store that holds one ticket.          *)
(***************************************************************************)
Next ==
  \/ Tick
  \/ \E p \in Procs : Finish(p)
  \/ \E p \in Procs : IssueStart(p, Customers, ServiceInputs, 1)
  \/ \E p \in Procs : IssueInsert(p)
  \/ \E p \in Procs : IssueEstimate(p)
  \/ \E p \in Procs : IssueEmit(p, FALSE)
  \/ \E p \in Procs : CallNextStart(p, Staff, CounterInputs)
  \/ \E p \in Procs : CallNextCommit(p)
  \/ \E p \in Procs : CallNextEmit(p, FALSE)
  \/ \E p \in Procs : CallSpecificStart(p, Staff, CounterInputs)
  \/ \E p \in Procs : CallSpecificCommit(p)
  \/ \E p \in Procs : CallSpecificEmit(p, FALSE)
  \/ \E p \in Procs : CompleteStart(p, Staff)
  \/ \E p \in Procs : CompleteCommit(p)
  \/ \E p \in Procs : CompleteEmit(p, FALSE)
  \/ \E p \in Procs : CancelStart(p, Customers)
  \/ \E p \in Procs : CancelCommit(p)
  \/ \E p \in Procs : CancelEmit(p, FALSE)
  \/ \E p \in Procs : UpdateStatusStart(p, Staff, StatusInputs, {NoStr}, {NoStr})
  \/ \E p \in Procs : UpdateStatusCommit(p)
  \/ \E p \in Procs : UpdateStatusEmit(p, FALSE)

Spec == Init /\ [][Next]_vars

(***************************************************************************)
(* The sequence allocator alone: concurrent Issue requests over several    *)
(* days and time zones.                                                    *)
(***************************************************************************)
InitIssue == InitWith(NULL, 0..MaxTz)

NextIssue ==
  \/ Tick
  \/ \E p \in Procs : Finish(p)
  \/ \E p \in Procs : IssueStart(p, Customers, ServiceInputs, MaxTokens)
  \/ \E p \in Procs : IssueInsert(p)
  \/ \E p \in Procs : IssueEstimate(p)
  \/ \E p \in Procs : IssueEmit(p, FALSE)

SpecIssue == InitIssue /\ [][NextIssue]_vars

(***************************************************************************)
(* The service desk: customers issue and cancel, staff call the next       *)
(* ticket and complete it, all within one clock tick.                      *)
(***************************************************************************)
InitDesk == InitWith(DeskOps, {0})

NextDesk ==
  \/ \E p \in Procs : Finish(p)
  \/ \E p \in Procs : IssueStart(p, Customers, {"general_query"}, MaxTokens)
  \/ \E p \in Procs : IssueInsert(p)
  \/ \E p \in Procs : IssueEstimate(p)
  \/ \E p \in Procs : IssueEmit(p, FALSE)
  \/ \E p \in Procs : CallNextStart(p, {3}, CounterInputs)
  \/ \E p \in Procs : CallNextCommit(p)
  \/ \E p \in Procs : CallNextEmit(p, FALSE)
  \/ \E p \in Procs : CompleteStart(p, {3})
  \/ \E p \in Procs : CompleteCommit(p)
  \/ \E p \in Procs : CompleteEmit(p, FALSE)
  \/ \E p \in Procs : CancelStart(p, Customers)
  \/ \E p \in Procs : CancelCommit(p)
  \/ \E p \in Procs : CancelEmit(p, FALSE)

SpecDesk == InitDesk /\ [][NextDesk]_vars

(***************************************************************************)
(* The allocator on servers whose local clock (date.today()) is behind,    *)
(* level with, or ahead of UTC (datetime.utcnow()).                        *)
(***************************************************************************)
Zones == {-1, 0, 1}

InitZones == InitWith(NULL, Zones)

SpecZones == InitZones /\ [][NextIssue]_vars

(***************************************************************************)
(* A busy day: the allocator on a day on which BusyDay - 1 or BusyDay      *)
(* tickets have already been issued, none of them called yet.              *)
(***************************************************************************)
\* the table after n sequential Issue requests of customer 1 at time 0
Backlog(n) ==
  [i \in 1..n |->
     [NewToken(generate_token_number(TOKEN_PREFIX, DateStr(0), i), 1,
               "general_query", determine_priority(Users[1]), "")
        EXCEPT !.estimated_wait_time = calculate_wait_time(i)]]

InitBusyDay ==
  /\ now = 0
  /\ tzoff = 0
  /\ left = NULL
  /\ req = [p \in Procs |-> Idle]
  /\ conns = [u \in DOMAIN Users |-> NoConn]
  /\ \E n \in (BusyDay - 1)..BusyDay : tokens = Backlog(n)

NextBusyDay ==
  \/ \E p \in Procs : Finish(p)
  \/ \E p \in Procs : IssueStart(p, Customers, ServiceInputs, BusyDay + 2)
  \/ \E p \in Procs : IssueInsert(p)
  \/ \E p \in Procs : IssueEstimate(p)
  \/ \E p \in Procs : IssueEmit(p, FALSE)

SpecBusyDay == InitBusyDay /\ [][NextBusyDay]_vars

(***************************************************************************)
(* The fan-out: every operation on a store that holds one ticket, with     *)
(* emit calls that may raise.                                              *)
(***************************************************************************)
InitFanout == InitWith(FanoutOps, {0})

NextFanout ==
  \/ \E p \in Procs : Finish(p)
  \/ \E p \in Procs : IssueStart(p, Customers, ServiceInputs, 1)
  \/ \E p \in Procs : IssueInsert(p)
  \/ \E p \in Procs : IssueEstimate(p)
  \/ \E p \in Procs : IssueEmit(p, TRUE)
  \/ \E p \in Procs : CallNextStart(p, Staff, CounterInputs)
  \/ \E p \in Procs : CallNextCommit(p)
  \/ \E p \in Procs : CallNextEmit(p, TRUE)
  \/ \E p \in Procs : CallSpecificStart(p, Staff, CounterInputs)
  \/ \E p \in Procs : CallSpecificCommit(p)
  \/ \E p \in Procs : CallSpecificEmit(p, TRUE)
  \/ \E p \in Procs : CompleteStart(p, Staff)
  \/ \E p \in Procs : CompleteCommit(p)
  \/ \E p \in Procs : CompleteEmit(p, TRUE)
  \/ \E p \in Procs : CancelStart(p, Customers)
  \/ \E p \in Procs : CancelCommit(p)
  \/ \E p \in Procs : CancelEmit(p, TRUE)
  \/ \E p \in Procs : UpdateStatusStart(p, Staff, StatusInputs, {NoStr}, {NoStr})
  \/ \E p \in Procs : UpdateStatusCommit(p)
  \/ \E p \in Procs : UpdateStatusEmit(p, TRUE)

SpecFanout == InitFanout /\ [][NextFanout]_vars

(***************************************************************************)
(* Properties.                                                             *)
(***************************************************************************)
\* p has just finished its first step (the validation and the SELECT)
Started(p, op) == req[p].pc = "idle" /\ req'[p].op = op

Rejected(p) == req'[p].pc = "done" /\ req'[p].code # 200

\* the transitions of the state machine
Allowed ==
  {<<"waiting", "in_progress">>, <<"in_progress", "completed">>,
   <<"waiting", "cancelled">>}

\* C1: no two persisted tickets have the same number, under any
\* interleaving of concurrent Issue requests.
C1_UniqueNumbers ==
  \A i, j \in TokenIds : i # j => tokens[i].token_number # tokens[j].token_number

\* two Issue requests computed the same number; one was refused, and a later
\* Issue stored the next number
C1_Witness ==
  /\ Len(tokens) >= 2
  /\ \E p \in Procs : req[p].op = "Issue" /\ req[p].code = 500

\* C2: an Issue that loses the race for a number retries, and fails only
\* after 5 attempts.
C2_FailsOnlyAfterRetries ==
  \A p \in Procs :
    (req[p].op = "Issue" /\ req[p].pc = "done" /\ req[p].code = 500)
      => req[p].attempts >= 5

\* C3: no two CallNext callers receive the same ticket.
C3_NoDoubleClaim ==
  \A p, q \in Procs :
    (/\ p # q
     /\ req[p].op = "CallNext" /\ req[p].code = 200
     /\ req[q].op = "CallNext" /\ req[q].code = 200)
      => req[p].tid # req[q].tid

\* C4: every change of a ticket's status is waiting -> in_progress,
\* in_progress -> completed or waiting -> cancelled.
C4_StateMachine ==
  [][\A t \in TokenIds :
       tokens'[t].status # tokens[t].status
         => <<tokens[t].status, tokens'[t].status>> \in Allowed]_vars

\* C5: UpdateStatus rejects every requested transition outside the state
\* machine.
C5_UpdateStatusRejects ==
  [][\A p \in Procs :
       (/\ Started(p, "UpdateStatus")
        /\ req'[p].tid \in TokenIds
        /\ <<tokens[req'[p].tid].status, req'[p].status>> \notin Allowed)
         => Rejected(p) /\ tokens' = tokens]_vars

\* C6: CallSpecific fails, changing nothing, when the ticket does not exist
\* or is not waiting.
C6_CallSpecificRejects ==
  [][\A p \in Procs :
       (/\ Started(p, "CallSpecific")
        /\ \/ req'[p].tid \notin TokenIds
           \/ tokens[req'[p].tid].status # "waiting")
         => Rejected(p) /\ tokens' = tokens]_vars

C8_CompleteOnlyInProgress ==
  [][\A p \in Procs :
       (req[p].op = "Complete" /\ req[p].pc = "commit" /\ req'[p].pc = "emit")
         => tokens[req[p].tid].status = "in_progress"]_vars

\* the rank of the selector: vip before elevated before normal
ClassRank(p) ==
  CASE p = "vip" -> 3
    [] p = "elevated" -> 2
    [] OTHER -> 1

\* i is ranked before j: class, then issue time, then id
RankedBefore(i, j) ==
  \/ ClassRank(tokens[i].priority) > ClassRank(tokens[j].priority)
  \/ /\ ClassRank(tokens[i].priority) = ClassRank(tokens[j].priority)
     /\ \/ tokens[i].generated_at < tokens[j].generated_at
        \/ tokens[i].generated_at = tokens[j].generated_at /\ i < j

\* C9: CallNext picks the first waiting ticket by class, issue time and id.
C9_PicksFirstRanked ==
  [][\A p \in Procs :
       (Started(p, "CallNext") /\ req'[p].pc = "commit")
         => \A j \in WaitingIds \ {req'[p].tid} : RankedBefore(req'[p].tid, j)]_vars

\* C10: CallNext with no waiting ticket answers 'No tokens in queue',
\* changes no ticket and publishes no event.
C10_EmptyQueue ==
  [][\A p \in Procs :
       (Started(p, "CallNext") /\ WaitingIds = {})
         => /\ req'[p].pc = "done"
            /\ req'[p].code = 400
            /\ req'[p].message = "No tokens in queue"
            /\ req'[p].emitted = <<>>
            /\ tokens' = tokens]_vars

\* CallNext found the queue empty although the store holds a ticket
C10_Witness ==
  \E p \in Procs :
    /\ req[p].op = "CallNext"
    /\ req[p].message = "No tokens in queue"
    /\ Len(tokens) > 0
    /\ WaitingIds = {}

\* C11: called_at is set exactly when the status is in_progress or completed,
\* and completed_at is set exactly when the status is completed.
C11_TimestampsMatchStatus ==
  \A t \in TokenIds :
    /\ tokens[t].called_at # NULL
         <=> tokens[t].status \in {"in_progress", "completed"}
    /\ tokens[t].completed_at # NULL <=> tokens[t].status = "completed"

\* C12: called_at and completed_at, once set, are never overwritten.
C12_WrittenOnce ==
  [][\A t \in TokenIds :
       /\ tokens[t].called_at # NULL
            => tokens'[t].called_at = tokens[t].called_at
       /\ tokens[t].completed_at # NULL
            => tokens'[t].completed_at = tokens[t].completed_at]_vars

\* C13: the commit of CallNext leaves the ticket in_progress at the caller's
\* counter and served by the caller; the commit of Complete leaves it
\* completed, with called_at <= completed_at, and still served by the staff
\* member who called it.
C13_CallThenComplete ==
  [][\A p \in Procs :
       /\ (req[p].op = "CallNext" /\ req[p].pc = "commit" /\ req'[p].pc = "emit")
            => LET t == tokens'[req[p].tid]
               IN  /\ t.status = "in_progress"
                   /\ t.counter_number = req[p].counter
                   /\ t.served_by = req[p].user
       /\ (req[p].op = "Complete" /\ req[p].pc = "commit" /\ req'[p].pc = "emit")
            => LET t == tokens'[req[p].tid]
               IN  /\ t.status = "completed"
                   /\ t.called_at <= t.completed_at
                   /\ t.served_by = tokens[req[p].tid].served_by]_vars

\* C14: the number built for a sequence parses back, with the allocator's
\* own parse, to that sequence and to the date it was built for.
C14_RoundTrip ==
  [][\A p \in Procs :
       (Started(p, "Issue") /\ req'[p].pc = "insert")
         => LET number == req'[p].number
                k == Len(TOKEN_PREFIX)
            IN  /\ LastThree(number) = NextSequence
                /\ SubSeq(number, k + 1, k + 8) = DateStr(LocalToday)]_vars

\* the date and the sequence written in a ticket number
NumberDate(number) ==
  SubSeq(number, Len(TOKEN_PREFIX) + 1, Len(TOKEN_PREFIX) + 8)

NumberSequence(number) ==
  ParseInt(SubSeq(number, Len(TOKEN_PREFIX) + 9, Len(number)))

\* C15: among the tickets of one date, in issuance order, the first has
\* sequence 1 and each later one a sequence larger than every earlier one.
C15_SequencePerDay ==
  \A t \in TokenIds :
    LET earlier == {i \in 1..(t - 1) :
                      NumberDate(tokens[i].token_number)
                        = NumberDate(tokens[t].token_number)}
    IN  /\ earlier = {} => NumberSequence(tokens[t].token_number) = 1
        /\ \A i \in earlier :
             NumberSequence(tokens[i].token_number)
               < NumberSequence(tokens[t].token_number)

\* C16: no step removes a ticket or changes its number, and a ticket that is
\* added never carries the number of a ticket already in the store, whatever
\* the status of that ticket.
C16_NeverReusedNorRemoved ==
  [][/\ Len(tokens') >= Len(tokens)
     /\ \A t \in TokenIds : tokens'[t].token_number = tokens[t].token_number
     /\ \A t \in (1..Len(tokens')) \ TokenIds :
          \A i \in TokenIds :
            tokens'[t].token_number # tokens[i].token_number]_vars

\* a ticket was cancelled or completed, it is still in the store, and a
\* ticket issued after it on the same date has another number
C16_Witness ==
  \E i, j \in TokenIds :
    /\ i < j
    /\ tokens[i].status \in {"cancelled", "completed"}
    /\ NumberDate(tokens[i].token_number) = NumberDate(tokens[j].token_number)
    /\ tokens[i].token_number # tokens[j].token_number

\* C17: the estimate stored for a new ticket is 5 times the number of waiting
\* tickets, the new ticket among them, and a stored estimate never changes.
C17_EstimateAtIssuance ==
  [][/\ \A p \in Procs :
          (req[p].pc = "estimate" /\ req'[p].pc = "emit")
            => /\ req[p].tid \in WaitingIds
               /\ tokens'[req[p].tid].estimated_wait_time
                    = 5 * Cardinality(WaitingIds)
     /\ \A t \in TokenIds :
          tokens[t].estimated_wait_time # NULL
            => tokens'[t].estimated_wait_time = tokens[t].estimated_wait_time]_vars

\* C18: an Issue is taken on only with a recognised service type; any other
\* is answered 400 'Validation errors' without storing a ticket, consuming a
\* sequence number or publishing an event.
C18_InvalidServiceRejected ==
  [][\A p \in Procs :
       Started(p, "Issue")
         => \/ /\ req'[p].pc = "insert"
               /\ req'[p].service \in ValidTypes
            \/ /\ req'[p].pc = "done"
               /\ req'[p].code = 400
               /\ req'[p].message = "Validation errors"
               /\ req'[p].emitted = <<>>
               /\ tokens' = tokens
               /\ NextSequence' = NextSequence]_vars

\* an Issue was refused for its service type while the store holds a ticket
C18_Witness ==
  \E p \in Procs :
    /\ req[p].op = "Issue"
    /\ req[p].message = "Validation errors"
    /\ Len(tokens) > 0

\* C19: the status of every ticket is one of the four recognised values.
C19_StatusEnumeration ==
  \A t \in TokenIds :
    tokens[t].status \in {"waiting", "in_progress", "completed", "cancelled"}

\* the events listed for an operation on ticket t, as (event, audience) pairs
Listed(op, t) ==
  LET owner == Room("customer", tokens[t].customer_id)
  IN  CASE op = "Issue" ->
             {<<"token_generated", Room("staff", 0)>>,
              <<"token_generated", Room("admin", 0)>>}
        [] op \in {"CallNext", "CallSpecific"} ->
             {<<"token_called", owner>>,
              <<"token_updated", Room("staff", 0)>>,
              <<"token_updated", Room("admin", 0)>>}
        [] op = "Complete" ->
             {<<"token_updated", owner>>,
              <<"token_updated", Room("staff", 0)>>,
              <<"token_updated", Room("admin", 0)>>}
        [] OTHER -> {}

\* C20: an operation that has committed publishes exactly the events listed
\* for it, each once and about its ticket; an operation that is rejected
\* publishes nothing.
C20_PublishesListedEvents ==
  [][\A p \in Procs :
       /\ (/\ req[p].pc = "emit" /\ req'[p].pc = "done"
           /\ req[p].op \in {"Issue", "CallNext", "CallSpecific", "Complete"})
            => LET out == req'[p].emitted
               IN  /\ {<<out[i].event, out[i].room>> : i \in DOMAIN out}
                        = Listed(req[p].op, req[p].tid)
                   /\ Len(out) = Cardinality(Listed(req[p].op, req[p].tid))
                   /\ \A i \in DOMAIN out : out[i].tid = req[p].tid
       /\ (req[p].pc \in {"idle", "insert"} /\ req'[p].pc = "done")
            => req'[p].emitted = <<>>]_vars

\* C21: when an emit of a committed operation raises, the operation still
\* answers with success and its commit stays in the store.
C21_FanoutFailureSwallowed ==
  [][\A p \in Procs :
       (req[p].pc = "emit" /\ req'[p].pc = "done")
         => /\ req'[p].code = 200
            /\ tokens' = tokens]_vars

\* the status a committed request has written to its ticket
Written(r) ==
  CASE r.op = "CallNext" -> "in_progress"
    [] r.op = "Complete" -> "completed"
    [] r.op = "Cancel" -> "cancelled"
    [] OTHER -> NoStr

\* C22: the events about one ticket are published in the order of the
\* commits: a request never publishes its change after a later change of the
\* same ticket has been committed and published.  (When p publishes and the
\* store no longer holds the status p wrote, a later commit has replaced it;
\* unless that request is still waiting to publish, its events are out.)
C22_PublishedInCommitOrder ==
  [][\A p \in Procs :
       (/\ req[p].pc = "emit" /\ req'[p].pc = "done"
        /\ req[p].op \in {"CallNext", "Complete", "Cancel"})
         => \/ tokens[req[p].tid].status = Written(req[p])
            \/ \E q \in Procs \ {p} :
                 req[q].pc = "emit" /\ req[q].tid = req[p].tid]_vars

(***************************************************************************)
(* src/websocket/events.py: the Socket.IO handlers.  conns[u] is the        *)
(* connection of the logged-in user u.  Room(role, 0) is the role room      *)
(* ('customer', 'staff', 'admin'), Room(role, id) the room f"{role}_{id}".   *)
(***************************************************************************)
handle_connect(u) ==
  /\ ~conns[u].up
  /\ LET role == Users[u].role
         user_room == Room(role, u)
     IN  conns' = [conns EXCEPT ![u] =
                     [up |-> TRUE,
                      rooms |-> {user_room, Room(role, 0)}
                                  \cup (IF role = "admin" THEN {Room("admin", 0)} ELSE {})
                                  \cup (IF role \in {"staff", "admin"}
                                          THEN {Room("staff", 0)} ELSE {})]]
  /\ UNCHANGED <<tokens, req, now, tzoff, left>>

\* the server drops a closed connection from every room it is in
handle_disconnect(u) ==
  /\ conns[u].up
  /\ conns' = [conns EXCEPT ![u] = NoConn]
  /\ UNCHANGED <<tokens, req, now, tzoff, left>>

RoomInputs == {Room("customer", 1), Room("staff", 0), Room("admin", 0)}

handle_join_room(u, room) ==
  /\ conns[u].up
  /\ LET role == Users[u].role
     IN  IF \/ room = Room("admin", 0) /\ role # "admin"
            \/ room = Room("staff", 0) /\ role \notin {"staff", "admin"}
            \/ room.kind = "customer" /\ room.id # 0 /\ role # "customer"
           THEN UNCHANGED conns
           ELSE conns' = [conns EXCEPT ![u].rooms = @ \cup {room}]
  /\ UNCHANGED <<tokens, req, now, tzoff, left>>

handle_leave_room(u, room) ==
  /\ conns[u].up
  /\ conns' = [conns EXCEPT ![u].rooms = @ \ {room}]
  /\ UNCHANGED <<tokens, req, now, tzoff, left>>

(***************************************************************************)
(* The desk with observers: a customer issues, a staff member calls, and    *)
(* both customers and the admin hold Socket.IO connections                  *)
(***************************************************************************)
SocketOps == 2

SocketUsers == {1, 2, 5}

InitSocket == InitWith(SocketOps, {0})

NextSocket ==
  \/ \E p \in Procs :
       \/ IssueStart(p, {1}, {"general_query"}, 1)
       \/ IssueInsert(p)
       \/ IssueEstimate(p)
       \/ IssueEmit(p, FALSE)
       \/ CallNextStart(p, {3}, CounterInputs)
       \/ CallNextCommit(p)
       \/ CallNextEmit(p, FALSE)
       \/ Finish(p)
  \/ \E u \in SocketUsers :
       \/ handle_connect(u)
       \/ handle_disconnect(u)
       \/ \E room \in RoomInputs :
            \/ handle_join_room(u, room)
            \/ handle_leave_room(u, room)

SpecSocket == InitSocket /\ [][NextSocket]_vars

\* the events of a finished request that reach the connection of u
Delivered(u, r) ==
  {i \in DOMAIN r.emitted : conns[u].up /\ r.emitted[i].room \in conns[u].rooms}

\* C23: a connected observer receives a state-change event at most once
\* per accepted operation, also when its connection is in more than one of
\* the rooms the event is published to (the admin is in 'staff' and 'admin')
C23_AtMostOncePerConnection ==
  [][\A p \in Procs :
       (req[p].pc = "emit" /\ req'[p].pc = "done")
         => \A u \in DOMAIN Users :
              \A i, j \in Delivered(u, req'[p]) :
                (/\ req'[p].emitted[i].event = req'[p].emitted[j].event
                 /\ req'[p].emitted[i].tid = req'[p].emitted[j].tid)
                  => i = j]_vars

\* C29: the room customer_<ownerId> holds only that owner's connections:
\* after any sequence of connect, join_room and leave_room, a connection
\* authenticated as another customer is never a member of it
C29_OwnerRoomPrivate ==
  \A u \in Customers : \A owner \in Customers \ {u} :
    Room("customer", owner) \notin conns[u].rooms

(***************************************************************************)
(* The life of a ticket: every operation that writes a ticket, with one     *)
(* staff member calling and another completing.  Customer 1 already holds   *)
(* a waiting ticket; customer 2 may take another.                           *)
(***************************************************************************)
LifeOps == 2

InitLife ==
  /\ now = 0
  /\ tzoff = 0
  /\ left = LifeOps
  /\ req = [p \in Procs |-> Idle]
  /\ conns = [u \in DOMAIN Users |-> NoConn]
  /\ tokens = Backlog(1)

NextLife ==
  \/ \E p \in Procs : Finish(p)
  \/ \E p \in Procs : IssueStart(p, {2}, {"general_query"}, MaxTokens)
  \/ \E p \in Procs : IssueInsert(p)
  \/ \E p \in Procs : IssueEstimate(p)
  \/ \E p \in Procs : IssueEmit(p, FALSE)
  \/ \E p \in Procs : CallNextStart(p, {3}, CounterInputs)
  \/ \E p \in Procs : CallNextCommit(p)
  \/ \E p \in Procs : CallNextEmit(p, FALSE)
  \/ \E p \in Procs : CallSpecificStart(p, {3}, CounterInputs)
  \/ \E p \in Procs : CallSpecificCommit(p)
  \/ \E p \in Procs : CallSpecificEmit(p, FALSE)
  \/ \E p \in Procs : CompleteStart(p, {4})
  \/ \E p \in Procs : CompleteCommit(p)
  \/ \E p \in Procs : CompleteEmit(p, FALSE)
  \/ \E p \in Procs : CancelStart(p, Customers)
  \/ \E p \in Procs : CancelCommit(p)
  \/ \E p \in Procs : CancelEmit(p, FALSE)
  \/ \E p \in Procs : UpdateStatusStart(p, {3}, {"waiting", "cancelled"}, {NoStr}, {NoStr})
  \/ \E p \in Procs : UpdateStatusCommit(p)
  \/ \E p \in Procs : UpdateStatusEmit(p, FALSE)

SpecLife == InitLife /\ [][NextLife]_vars

C25_CancelOrCallNotBoth ==
  [][\A t \in DOMAIN tokens :
       /\ tokens[t].status = "cancelled"
            => tokens'[t].status \notin {"in_progress", "completed"}
       /\ tokens[t].status \in {"in_progress", "completed"}
            => tokens'[t].status # "cancelled"]_vars

\* the largest sequence written in the numbers of the tickets in ids
MaxSequence(ids) ==
  IF ids = {} THEN 0
  ELSE CHOOSE m \in {NumberSequence(tokens[i].token_number) : i \in ids} :
         \A i \in ids : NumberSequence(tokens[i].token_number) <= m

\* C26: the tickets the allocator treats as issued today (UTC date of
\* generated_at equal to the local date.today()) are exactly the tickets
\* whose number carries today's date string, whatever the local and the UTC
\* date are, and the candidate sequence is one more than the largest
\* sequence used with that date
C26_TodayIsNumberDate ==
  LET treated == {t \in TokenIds : UtcDate(tokens[t].generated_at) = LocalToday}
      dated == {t \in TokenIds :
                  NumberDate(tokens[t].token_number) = DateStr(LocalToday)}
  IN  /\ treated = dated
      /\ NextSequence = MaxSequence(dated) + 1

\* C27: Issue calls made strictly one after another with a valid service
\* type always succeed, however many tickets have been issued that day and
\* at any time of day: the number the allocator computes for an Issue that
\* starts while no other request is in flight is not the number of a
\* ticket in the store, so its insert cannot fail on a duplicate
C27_SequentialIssueSucceeds ==
  [][\A p \in Procs :
       (/\ Started(p, "Issue") /\ req'[p].pc = "insert"
        /\ \A q \in Procs \ {p} : req[q].pc \in {"idle", "done"})
         => ~UniqueViolation(req'[p].number)]_vars

\* C28: Complete changes only status and completedAt: servedBy,
\* servingCounter, calledAt and every other field of the ticket are the same
\* after the Complete as before, also when another staff member completes
C28_CompleteKeepsServer ==
  [][\A p \in Procs :
       (req[p].op = "Complete" /\ req[p].pc = "commit" /\ req'[p].pc = "emit")
         => tokens'[req[p].tid] =
              [tokens[req[p].tid] EXCEPT
                 !.status = tokens'[req[p].tid].status,
                 !.completed_at = tokens'[req[p].tid].completed_at]]_vars

\* C30: a step writes at most the ticket of the request that commits (an
\* Issue only the ticket it has just added), every other ticket is left
\* unchanged; and a request that is answered with an error has written
\* nothing: it fails before its commit and its failing step leaves the
\* whole store unchanged
C30_OtherTicketsAndFailures ==
  [][/\ \A t \in DOMAIN tokens :
          tokens'[t] # tokens[t]
            => \E p \in Procs :
                 /\ req[p].tid = t
                 /\ req[p].pc \in {"commit", "estimate"}
                 /\ req'[p].pc = "emit"
     /\ \A p \in Procs :
          (req[p].pc # "done" /\ req'[p].pc = "done" /\ req'[p].code # 200)
            => /\ tokens' = tokens
               /\ req[p].pc \notin {"estimate", "emit"}]_vars

====
